---- MODULE Spec2Model ----
(***************************************************************************)
(* A model of rag_bedrock.py: the configuration block, check_model_access, *)
(* run_rag_query and the __main__ block.                                   *)
(*                                                                         *)
(* Text is a sequence of tokens: a token is a piece of text that the       *)
(* substring tests of the code either contain whole or not at all.  An     *)
(* f-string is the concatenation of its literal pieces and its interpolated*)
(* values.  A dict is a function whose DOMAIN is its set of keys.          *)
(***************************************************************************)
EXTENDS Integers, Sequences, FiniteSets, TLC

VARIABLES
    KNOWLEDGE_BASE_ID,  \* line 7
    REGION_NAME,        \* line 11
    MODEL_ID,           \* line 14
    pc,                 \* the statement about to run
    mode,               \* "none", "script" (run directly) or "import" (a caller)
    locals,             \* the running function's local variables
    net,                \* boto3 clients created and API calls issued, in order
    out,                \* the lines printed to standard output (their kind)
    invoked,            \* the functions entered, in order
    cma_returns,        \* the values check_model_access has returned
    rag_returns         \* the records run_rag_query has returned

vars == <<KNOWLEDGE_BASE_ID, REGION_NAME, MODEL_ID, pc, mode, locals, net, out,
          invoked, cma_returns, rag_returns>>

config == <<KNOWLEDGE_BASE_ID, REGION_NAME, MODEL_ID>>

----------------------------------------------------------------------------
(* Bounds *)

MaxMsgLen == 3       \* tokens in an exception's message
MaxModels == 2       \* model summaries in a listing response
MaxCitations == 2    \* citation entries in a response
MaxRefs == 2         \* retrieved references in a response, over all citations

SeqsUpTo(S, n) == UNION {[1..k -> S] : k \in 0..n}

----------------------------------------------------------------------------
(* Configuration, lines 5-19 *)

KB_SENTINEL == "YOUR_KNOWLEDGE_BASE_ID_HERE"
REGION_SENTINEL == "YOUR_KB_REGION_HERE"
SHIPPED_KNOWLEDGE_BASE_ID == "######"
SHIPPED_REGION_NAME == "us-west-2"
HAIKU == "anthropic.claude-3-haiku-20240307-v1:0"
SONNET == "anthropic.claude-3-sonnet-20240229-v1:0"
LLAMA == "meta.llama3-8b-instruct-v1:0"
\* A MODEL_ID given as a full foundation-model ARN, the form line 117 splits.
FOUNDATION_MODEL == "arn:aws:bedrock:us-west-2::foundation-model"
HAIKU_ARN == "arn:aws:bedrock:us-west-2::foundation-model/anthropic.claude-3-haiku-20240307-v1:0"

KnowledgeBaseIds == {SHIPPED_KNOWLEDGE_BASE_ID, KB_SENTINEL, "A1B2C3D4E5"}
RegionNames == {SHIPPED_REGION_NAME, REGION_SENTINEL}
ModelIds == {HAIKU, SONNET, HAIKU_ARN}
ListedModelIds == {HAIKU, SONNET, LLAMA}

NumberOfResults == 3

test_query == "Which things did author learnt and understood with his experience?"
Queries == {test_query, ""}

----------------------------------------------------------------------------
(* Exceptions and their text *)

VALIDATION == "ValidationException"
MODEL_ACCESS == "access to the model"
ACCESS_DENIED == "AccessDeniedException"

MsgTokens == {VALIDATION, MODEL_ACCESS, ACCESS_DENIED, "ThrottlingException"}
Messages == SeqsUpTo(MsgTokens, MaxMsgLen)

\* An exception raised by boto3 (client creation or an API call).
ServiceError(msg) == [type |-> "ClientError", args |-> msg]
\* d[key] on a dict without the key.
KeyError(key) == [type |-> "KeyError", args |-> <<key>>]

ServiceErrors == {ServiceError(m) : m \in Messages}

\* str(e) taken as the bare argument of the exception, without the repr of a key.
Str_Args(e) == e.args

\* str(e): the message of a service error, the repr of the key of a KeyError.
Str(e) == IF e.type = "KeyError" THEN <<"'" \o e.args[1] \o "'">> ELSE e.args

\* sub in text
Contains(text, sub) == \E i \in 1..Len(text) : text[i] = sub

Ok(v) == [ok |-> TRUE, val |-> v]
Raise(e) == [ok |-> FALSE, exc |-> e]

----------------------------------------------------------------------------
(* Provider responses *)

Summaries == {[modelId |-> m] : m \in ListedModelIds} \cup {[modelName |-> "Unnamed"]}
ListResponses ==
    {[modelSummaries |-> s] : s \in SeqsUpTo(Summaries, MaxModels)}
        \cup {[ResponseMetadata |-> "200"]}

Refs == {[uri |-> "s3://kb/doc1.txt", content |-> [text |-> "snippet one"]],
         [content |-> [text |-> "snippet two"]],
         [uri |-> "s3://kb/doc2.txt", content |-> [type |-> "TEXT"]],
         [uri |-> "s3://kb/doc3.txt"]}

Citations == {[retrievedReferences |-> r] : r \in SeqsUpTo(Refs, MaxRefs)}
                 \cup {[generatedResponsePart |-> "part"]}

RefCount(c) == IF "retrievedReferences" \in DOMAIN c THEN Len(c.retrievedReferences) ELSE 0

RECURSIVE TotalRefs(_)
TotalRefs(cs) == IF Len(cs) = 0 THEN 0 ELSE RefCount(Head(cs)) + TotalRefs(Tail(cs))

CitationLists == {cs \in SeqsUpTo(Citations, MaxCitations) : TotalRefs(cs) <= MaxRefs}

Output == [text |-> "generated answer"]

RagResponses ==
    {[output |-> Output, citations |-> cs] : cs \in CitationLists}
        \cup {[output |-> Output],
              [output |-> [type |-> "TEXT"]],
              [sessionId |-> "s-1"]}

----------------------------------------------------------------------------
(* check_model_access, lines 22-45 *)

NoLocals == [fn |-> "none"]

Last(s) == s[Len(s)]

Range(s) == {s[i] : i \in 1..Len(s)}

\* boto3.client(service, region_name=REGION_NAME): the call, and whether it returned.
ClientEvent(service, region, ok) ==
    [op |-> "client", service |-> service, region_name |-> region, ok |-> ok]

\* Line 33: [model['modelId'] for model in response['modelSummaries']]
RECURSIVE ModelIdsOf(_, _)
ModelIdsOf(summaries, acc) ==
    IF Len(summaries) = 0 THEN Ok(acc)
    ELSE LET model == Head(summaries) IN
         IF "modelId" \notin DOMAIN model THEN Raise(KeyError("modelId"))
         ELSE ModelIdsOf(Tail(summaries), Append(acc, model.modelId))

AvailableModels(response) ==
    IF "modelSummaries" \notin DOMAIN response THEN Raise(KeyError("modelSummaries"))
    ELSE ModelIdsOf(response.modelSummaries, <<>>)

\* The membership test taken as a test of the first model listed.
IsAvailable_First(model_id, available_models) ==
    Len(available_models) > 0 /\ available_models[1] = model_id

\* Line 35: MODEL_ID in available_models
IsAvailable(model_id, available_models) == model_id \in Range(available_models)

\* The script stopping when the access check fails.
AfterCheck_ExitOnFail(m) ==
    IF m = "script" /\ Last(cma_returns') THEN "main_checked" ELSE "done"

\* Where control goes when check_model_access returns.
AfterCheck(m) == IF m = "script" THEN "main_checked" ELSE "done"

CmaReturn(value) ==
    /\ cma_returns' = Append(cma_returns, value)
    /\ locals' = NoLocals
    /\ pc' = AfterCheck(mode)

\* Line 30
CmaClient ==
    /\ pc = "cma_client"
    /\ \/ /\ net' = Append(net, ClientEvent("bedrock", REGION_NAME, TRUE))
          /\ locals' = [fn |-> "check_model_access", client |-> "bedrock"]
          /\ pc' = "cma_list"
       \/ \E e \in ServiceErrors :
          /\ net' = Append(net, ClientEvent("bedrock", REGION_NAME, FALSE))
          /\ locals' = [fn |-> "check_model_access", e |-> e]
          /\ pc' = "cma_except"
    /\ UNCHANGED <<config, mode, out, invoked, cma_returns, rag_returns>>

\* Line 31
CmaList ==
    /\ pc = "cma_list"
    /\ net' = Append(net, [op |-> "list_foundation_models"])
    /\ \/ \E response \in ListResponses :
          /\ locals' = [fn |-> "check_model_access", client |-> "bedrock",
                        response |-> response]
          /\ pc' = "cma_scan"
       \/ \E e \in ServiceErrors :
          /\ locals' = [fn |-> "check_model_access", client |-> "bedrock", e |-> e]
          /\ pc' = "cma_except"
    /\ UNCHANGED <<config, mode, out, invoked, cma_returns, rag_returns>>

\* Lines 33-41
CmaScan ==
    /\ pc = "cma_scan"
    /\ LET available_models == AvailableModels(locals.response) IN
       IF ~available_models.ok
       THEN /\ locals' = [fn |-> "check_model_access", client |-> "bedrock",
                          e |-> available_models.exc]
            /\ pc' = "cma_except"
            /\ UNCHANGED <<out, cma_returns>>
       ELSE IF IsAvailable(MODEL_ID, available_models.val)
       THEN /\ out' = Append(out, "model available")
            /\ CmaReturn(TRUE)
       ELSE /\ out' = out \o <<"model not available", "available models">>
            /\ CmaReturn(FALSE)
    /\ UNCHANGED <<config, mode, net, invoked, rag_returns>>

\* Lines 43-45
CmaExcept ==
    /\ pc = "cma_except"
    /\ out' = Append(out, "error checking model access")
    /\ CmaReturn(FALSE)
    /\ UNCHANGED <<config, mode, net, invoked, rag_returns>>

----------------------------------------------------------------------------
(* run_rag_query, lines 48-134 *)

\* Lines 59-62: the failure record of a configuration left unset, or none.
ConfigError(kb, region) ==
    IF kb = KB_SENTINEL
    THEN Ok([error |-> <<"Configuration Missing: Please set KNOWLEDGE_BASE_ID.">>])
    ELSE IF region = REGION_SENTINEL
    THEN Ok([error |-> <<"Configuration Missing: Please set REGION_NAME to your Knowledge Base region (e.g., 'us-east-1').">>])
    ELSE [ok |-> FALSE]

\* Line 84: the f-string of the model ARN.
ModelArn(region, model_id) ==
    <<"arn:aws:bedrock:", region, "::foundation-model/", model_id>>

\* Lines 78-91: the arguments of retrieve_and_generate.
Request(query, kb, region, model_id) ==
    [input |-> [text |-> query],
     type |-> "KNOWLEDGE_BASE",
     knowledgeBaseId |-> kb,
     modelArn |-> ModelArn(region, model_id),
     numberOfResults |-> NumberOfResults]

\* ref.get('uri') with an empty default.
UriOf_NoDefault(ref) == IF "uri" \in DOMAIN ref THEN ref.uri ELSE ""

\* Line 106: ref.get('uri', 'N/A')
UriOf(ref) == IF "uri" \in DOMAIN ref THEN ref.uri ELSE "N/A"

\* Lines 104-112: the references of one citation, appended to citations.
RECURSIVE WalkRefs(_, _)
WalkRefs(refs, citations) ==
    IF Len(refs) = 0 THEN Ok(citations)
    ELSE LET ref == Head(refs)
             uri == UriOf(ref)
         IN  IF "content" \notin DOMAIN ref THEN Raise(KeyError("content"))
             ELSE IF "text" \notin DOMAIN ref.content THEN Raise(KeyError("text"))
             ELSE WalkRefs(Tail(refs),
                           Append(citations,
                                  [source_uri |-> uri, snippet |-> ref.content.text]))

\* Lines 102-112
RECURSIVE WalkCitations(_, _)
WalkCitations(cs, citations) ==
    IF Len(cs) = 0 THEN Ok(citations)
    ELSE LET citation == Head(cs) IN
         IF "retrievedReferences" \in DOMAIN citation
         THEN LET walked == WalkRefs(citation.retrievedReferences, citations) IN
              IF walked.ok THEN WalkCitations(Tail(cs), walked.val) ELSE walked
         ELSE WalkCitations(Tail(cs), citations)

\* Lines 100-112
ExtractCitations(response) ==
    IF "citations" \in DOMAIN response
    THEN WalkCitations(response.citations, <<>>)
    ELSE Ok(<<>>)

\* model_id.split('/')
SplitSlash(model_id) ==
    IF model_id = HAIKU_ARN THEN <<FOUNDATION_MODEL, HAIKU>> ELSE <<model_id>>

\* Line 117: MODEL_ID.split('/')[-1]
LastSegment(model_id) == Last(SplitSlash(model_id))

\* A success record that also carries an (empty) 'error' key.
SuccessRecord_WithError(generated_text, citations, model_id) ==
    [answer |-> generated_text, sources |-> citations,
     model_used |-> LastSegment(model_id), error |-> <<>>]

\* Lines 114-118
SuccessRecord(generated_text, citations, model_id) ==
    [answer |-> generated_text, sources |-> citations,
     model_used |-> LastSegment(model_id)]

\* Lines 97-118: the record returned, or the exception raised on the way.
ProcessResponse(response, model_id) ==
    IF "output" \notin DOMAIN response THEN Raise(KeyError("output"))
    ELSE IF "text" \notin DOMAIN response.output THEN Raise(KeyError("text"))
    ELSE LET generated_text == response.output.text
             citations == ExtractCitations(response)
         IN  IF citations.ok
             THEN Ok(SuccessRecord(generated_text, citations.val, model_id))
             ELSE citations

\* Line 125
IsModelAccessError(error_msg) ==
    Contains(error_msg, VALIDATION) /\ Contains(error_msg, MODEL_ACCESS)

\* The signature looked for at the start of the text only.
IsAccessDenied_Prefix(error_msg) ==
    Len(error_msg) > 0 /\ error_msg[1] = ACCESS_DENIED

\* Line 129
IsAccessDenied(error_msg) == Contains(error_msg, ACCESS_DENIED)

\* Line 127
ModelAccessText(error_msg, model_id, region) ==
    <<"Model Access Error: ">> \o error_msg \o
    <<"\n\nTroubleshooting:\n1. Check if the model '", model_id,
      "' is available in region '", region,
      "'\n2. Verify you have access to this model in your AWS account\n3. Try using a different model like '",
      HAIKU, "' or '", SONNET, "'">>

\* Line 131
AccessDeniedText(error_msg) ==
    <<"Access Denied: ">> \o error_msg \o
    <<"\n\nTroubleshooting:\n1. Check your ", "AWS credentials",
      "\n2. Verify you have the necessary ", "IAM permissions",
      " for Bedrock\n3. Ensure your Knowledge Base ID is correct">>

\* The two tests of the dispatch in the other order.
ErrorRecord_DeniedFirst(error_msg, model_id, region) ==
    IF Contains(error_msg, ACCESS_DENIED)
    THEN [error |-> AccessDeniedText(error_msg)]
    ELSE IF Contains(error_msg, VALIDATION) /\ Contains(error_msg, MODEL_ACCESS)
    THEN [error |-> ModelAccessText(error_msg, model_id, region)]
    ELSE [error |-> error_msg]

\* The unclassified message returned with a prefix.
ErrorRecord_Prefixed(error_msg, model_id, region) ==
    IF Contains(error_msg, VALIDATION) /\ Contains(error_msg, MODEL_ACCESS)
    THEN [error |-> ModelAccessText(error_msg, model_id, region)]
    ELSE IF Contains(error_msg, ACCESS_DENIED)
    THEN [error |-> AccessDeniedText(error_msg)]
    ELSE [error |-> <<"Error: ">> \o error_msg]

\* Lines 125-134
ErrorRecord(error_msg, model_id, region) ==
    IF IsModelAccessError(error_msg)
    THEN [error |-> ModelAccessText(error_msg, model_id, region)]
    ELSE IF IsAccessDenied(error_msg)
    THEN [error |-> AccessDeniedText(error_msg)]
    ELSE [error |-> error_msg]

\* Where control goes when run_rag_query returns.
AfterQuery(m) == IF m = "script" THEN "main_present" ELSE "done"

RrqReturn(record) ==
    /\ rag_returns' = Append(rag_returns, record)
    /\ locals' = NoLocals
    /\ pc' = AfterQuery(mode)

\* Lines 59-67
RrqValidate ==
    /\ pc = "rrq_validate"
    /\ LET fail == ConfigError(KNOWLEDGE_BASE_ID, REGION_NAME) IN
       IF fail.ok
       THEN /\ RrqReturn(fail.val)
            /\ UNCHANGED out
       ELSE /\ out' = out \o <<"sending query", "using model", "region", "knowledge base id">>
            /\ pc' = "rrq_client"
            /\ UNCHANGED <<locals, rag_returns>>
    /\ UNCHANGED <<config, mode, net, invoked, cma_returns>>

\* Lines 71-74
RrqClient ==
    /\ pc = "rrq_client"
    /\ \/ /\ net' = Append(net, ClientEvent("bedrock-agent-runtime", REGION_NAME, TRUE))
          /\ locals' = [fn |-> "run_rag_query", query |-> locals.query,
                        client |-> "bedrock-agent-runtime"]
          /\ pc' = "rrq_call"
       \/ \E e \in ServiceErrors :
          /\ net' = Append(net, ClientEvent("bedrock-agent-runtime", REGION_NAME, FALSE))
          /\ locals' = [fn |-> "run_rag_query", query |-> locals.query, e |-> e]
          /\ pc' = "rrq_except"
    /\ UNCHANGED <<config, mode, out, invoked, cma_returns, rag_returns>>

\* Lines 77-92
RrqCall ==
    /\ pc = "rrq_call"
    /\ net' = Append(net, [op |-> "retrieve_and_generate",
                           request |-> Request(locals.query, KNOWLEDGE_BASE_ID,
                                               REGION_NAME, MODEL_ID)])
    /\ \/ \E response \in RagResponses :
          /\ locals' = [fn |-> "run_rag_query", query |-> locals.query,
                        client |-> "bedrock-agent-runtime", response |-> response]
          /\ pc' = "rrq_process"
       \/ \E e \in ServiceErrors :
          /\ locals' = [fn |-> "run_rag_query", query |-> locals.query,
                        client |-> "bedrock-agent-runtime", e |-> e]
          /\ pc' = "rrq_except"
    /\ UNCHANGED <<config, mode, out, invoked, cma_returns, rag_returns>>

\* Lines 97-118
RrqProcess ==
    /\ pc = "rrq_process"
    /\ LET processed == ProcessResponse(locals.response, MODEL_ID) IN
       IF processed.ok
       THEN RrqReturn(processed.val)
       ELSE /\ locals' = [fn |-> "run_rag_query", query |-> locals.query,
                          client |-> "bedrock-agent-runtime",
                          response |-> locals.response, e |-> processed.exc]
            /\ pc' = "rrq_except"
            /\ UNCHANGED rag_returns
    /\ UNCHANGED <<config, mode, net, out, invoked, cma_returns>>

\* A handler that issues the call once more after a failed call.
RrqExcept_Retry ==
    /\ pc = "rrq_except"
    /\ IF "client" \in DOMAIN locals /\ "response" \notin DOMAIN locals
          /\ Cardinality({i \in 1..Len(net) : net[i].op = "retrieve_and_generate"}) < 2
       THEN /\ pc' = "rrq_call"
            /\ locals' = [fn |-> "run_rag_query", query |-> locals.query,
                          client |-> "bedrock-agent-runtime"]
            /\ UNCHANGED <<out, rag_returns>>
       ELSE /\ out' = Append(out, "an error occurred")
            /\ rag_returns' = Append(rag_returns,
                                     ErrorRecord(Str(locals.e), MODEL_ID, REGION_NAME))
            /\ locals' = NoLocals
            /\ pc' = AfterQuery(mode)
    /\ UNCHANGED <<config, mode, net, invoked, cma_returns>>

\* Lines 120-134
RrqExcept ==
    /\ pc = "rrq_except"
    /\ LET error_msg == Str(locals.e) IN
       /\ out' = Append(out, "an error occurred")
       /\ RrqReturn(ErrorRecord(error_msg, MODEL_ID, REGION_NAME))
    /\ UNCHANGED <<config, mode, net, invoked, cma_returns>>

----------------------------------------------------------------------------
(* The entry point, lines 138-171, and a caller that imports the module *)

\* Lines 139-145: the banner, then the call of check_model_access.
RunScript ==
    /\ pc = "idle"
    /\ mode' = "script"
    /\ out' = out \o <<"banner", "prerequisites", "rule", "checking model access">>
    /\ invoked' = Append(invoked, "check_model_access")
    /\ locals' = [fn |-> "check_model_access"]
    /\ pc' = "cma_client"
    /\ UNCHANGED <<config, net, cma_returns, rag_returns>>

\* Lines 145-153: the warning when the check failed, then the call of run_rag_query.
MainChecked ==
    /\ pc = "main_checked"
    /\ out' = IF ~Last(cma_returns)
              THEN out \o <<"model access check failed", "try alternatives", "rule">>
              ELSE out
    /\ invoked' = Append(invoked, "run_rag_query")
    /\ locals' = [fn |-> "run_rag_query", query |-> test_query]
    /\ pc' = "rrq_validate"
    /\ UNCHANGED <<config, mode, net, cma_returns, rag_returns>>

\* Lines 164-171
SourceLines(sources) ==
    IF Len(sources) > 0
    THEN <<"sources used">> \o [i \in 1..Len(sources) |-> "source"] \o <<"rule">>
    ELSE <<"no sources">>

\* Lines 155-171
Present(rag_result) ==
    IF "error" \in DOMAIN rag_result
    THEN <<"failed">>
    ELSE <<"successful", "rule", "generated answer", "answer", "rule">>
             \o SourceLines(rag_result.sources)

MainPresent ==
    /\ pc = "main_present"
    /\ out' = out \o Present(Last(rag_returns))
    /\ pc' = "done"
    /\ UNCHANGED <<config, mode, locals, net, invoked, cma_returns, rag_returns>>

\* def check_model_access, line 22, called by an importing module.
ImportCheck ==
    /\ pc = "idle"
    /\ mode' = "import"
    /\ invoked' = Append(invoked, "check_model_access")
    /\ locals' = [fn |-> "check_model_access"]
    /\ pc' = "cma_client"
    /\ UNCHANGED <<config, net, out, cma_returns, rag_returns>>

\* def run_rag_query, line 48, called by an importing module with any query.
ImportQuery ==
    /\ pc = "idle"
    /\ \E query \in Queries :
          locals' = [fn |-> "run_rag_query", query |-> query]
    /\ mode' = "import"
    /\ invoked' = Append(invoked, "run_rag_query")
    /\ pc' = "rrq_validate"
    /\ UNCHANGED <<config, net, out, cma_returns, rag_returns>>

----------------------------------------------------------------------------

Init ==
    /\ KNOWLEDGE_BASE_ID \in KnowledgeBaseIds
    /\ REGION_NAME \in RegionNames
    /\ MODEL_ID \in ModelIds
    /\ pc = "idle"
    /\ mode = "none"
    /\ locals = NoLocals
    /\ net = <<>>
    /\ out = <<>>
    /\ invoked = <<>>
    /\ cma_returns = <<>>
    /\ rag_returns = <<>>

Next ==
    \/ RunScript
    \/ ImportCheck
    \/ ImportQuery
    \/ CmaClient
    \/ CmaList
    \/ CmaScan
    \/ CmaExcept
    \/ MainChecked
    \/ RrqValidate
    \/ RrqClient
    \/ RrqCall
    \/ RrqProcess
    \/ RrqExcept
    \/ MainPresent

Spec == Init /\ [][Next]_vars

\* The interpreter runs the next statement: nothing stops a run before its end.
FairSpec == Spec /\ WF_vars(Next)

----------------------------------------------------------------------------
(* What the claims speak of *)

IsFailure(record) == DOMAIN record = {"error"}
IsSuccess(record) == DOMAIN record = {"answer", "sources", "model_used"}

NetCount(op) == Cardinality({i \in 1..Len(net) : net[i].op = op})
RagClients ==
    {i \in 1..Len(net) : net[i].op = "client" /\ net[i].service = "bedrock-agent-runtime"}
InvokedCount(fn) == Cardinality({i \in 1..Len(invoked) : invoked[i] = fn})

\* The step on which run_rag_query returns, and the step on which check_model_access does.
RagReturnsNow == Len(rag_returns') = Len(rag_returns) + 1
CheckReturnsNow == Len(cma_returns') = Len(cma_returns) + 1

\* The placeholders of the configuration block: the value line 7 ships under the
\* comment "Replace the placeholder below", and the two sentinels.
KbPlaceholders == {SHIPPED_KNOWLEDGE_BASE_ID, KB_SENTINEL}
RegionPlaceholders == {REGION_SENTINEL}

\* The retrieved references of a response, citation entry by citation entry.
RECURSIVE Concat(_)
Concat(ss) == IF Len(ss) = 0 THEN <<>> ELSE Head(ss) \o Concat(Tail(ss))

RetrievedReferences(response) ==
    IF "citations" \notin DOMAIN response THEN <<>>
    ELSE Concat([i \in 1..Len(response.citations) |->
                    IF "retrievedReferences" \in DOMAIN response.citations[i]
                    THEN response.citations[i].retrievedReferences
                    ELSE <<>>])

CitationEntries(response) ==
    IF "citations" \in DOMAIN response THEN Len(response.citations) ELSE 0

ExpectedUri(ref) == IF "uri" \in DOMAIN ref THEN ref.uri ELSE "N/A"

UrisMatch(sources, refs) ==
    \A i \in 1..Len(sources) :
        i <= Len(refs) /\ sources[i].source_uri = ExpectedUri(refs[i])

\* A nominally successful response of unexpected shape.
MalformedRag(response) ==
    \/ "output" \notin DOMAIN response
    \/ "text" \notin DOMAIN response.output
    \/ \E i \in 1..Len(RetrievedReferences(response)) :
          LET ref == RetrievedReferences(response)[i] IN
          \/ "content" \notin DOMAIN ref
          \/ "text" \notin DOMAIN ref.content

\* A listing response from which the model identifiers can be read.
WellFormedListing(response) ==
    /\ "modelSummaries" \in DOMAIN response
    /\ \A i \in 1..Len(response.modelSummaries) :
          "modelId" \in DOMAIN response.modelSummaries[i]

Lists(response, model_id) ==
    \E i \in 1..Len(response.modelSummaries) :
        response.modelSummaries[i].modelId = model_id

\* The exception in hand was raised by boto3, in client creation or in the call.
FromNetwork == pc = "rrq_except" /\ locals.e.type = "ClientError"

----------------------------------------------------------------------------
(* C1 *)

\* C1 (as claimed): with KNOWLEDGE_BASE_ID or REGION_NAME left at its placeholder,
\* run_rag_query creates no client, issues no retrieve-and-generate call, and the
\* record it returns is a failure record.
C1_PlaceholderStopsBeforeNetwork ==
    (KNOWLEDGE_BASE_ID \in KbPlaceholders \/ REGION_NAME \in RegionPlaceholders)
        => /\ RagClients = {}
           /\ NetCount("retrieve_and_generate") = 0
           /\ \A i \in 1..Len(rag_returns) : IsFailure(rag_returns[i])

----------------------------------------------------------------------------
(* C2 *)

\* C2 (as claimed): a success record has as many sources as the response has
\* citation entries, each with the uri of the reference in that place, or "N/A".
C2_OneSourcePerCitationEntry ==
    [][(pc = "rrq_process" /\ RagReturnsNow /\ IsSuccess(Last(rag_returns')))
        => /\ Len(Last(rag_returns').sources) = CitationEntries(locals.response)
           /\ UrisMatch(Last(rag_returns').sources, RetrievedReferences(locals.response))
      ]_vars

\* C2 (amended): a success record has one source per retrieved reference of the
\* response, counted over all citation entries (an entry without
\* retrievedReferences gives none), in the response's order, each with the
\* reference's uri, or "N/A" when the reference has none.
C2_OneSourcePerReference ==
    [][(pc = "rrq_process" /\ RagReturnsNow /\ IsSuccess(Last(rag_returns')))
        => /\ Len(Last(rag_returns').sources) = Len(RetrievedReferences(locals.response))
           /\ UrisMatch(Last(rag_returns').sources, RetrievedReferences(locals.response))
      ]_vars

\* One citation entry with two references gave two sources, the first without a uri.
C2_Witness ==
    \E i \in 1..Len(rag_returns) :
        /\ IsSuccess(rag_returns[i])
        /\ Len(rag_returns[i].sources) = 2
        /\ rag_returns[i].sources[1].source_uri = "N/A"
        /\ rag_returns[i].sources[2].source_uri = "s3://kb/doc1.txt"

----------------------------------------------------------------------------
(* C3 *)

Mentions(record, what) == Contains(record.error, what)

\* C3 (as claimed): an exception of the network call whose text contains
\* "AccessDeniedException" gives a failure record that mentions AWS credentials
\* and IAM permissions.
C3_DeniedMentionsCredentials ==
    [][(FromNetwork /\ Contains(locals.e.args, ACCESS_DENIED))
        => /\ RagReturnsNow
           /\ IsFailure(Last(rag_returns'))
           /\ Mentions(Last(rag_returns'), "AWS credentials")
           /\ Mentions(Last(rag_returns'), "IAM permissions")
      ]_vars

\* C3 (amended): the same, for a text that does not also contain both
\* "ValidationException" and "access to the model".
C3_DeniedNotModelAccessMentionsCredentials ==
    [][(/\ FromNetwork
        /\ Contains(locals.e.args, ACCESS_DENIED)
        /\ ~(Contains(locals.e.args, VALIDATION) /\ Contains(locals.e.args, MODEL_ACCESS)))
        => /\ RagReturnsNow
           /\ IsFailure(Last(rag_returns'))
           /\ Mentions(Last(rag_returns'), "AWS credentials")
           /\ Mentions(Last(rag_returns'), "IAM permissions")
      ]_vars

\* An authorization failure whose text did not start with the signature was
\* returned with the credentials advice.
C3_Witness ==
    \E i \in 1..Len(rag_returns) :
        /\ IsFailure(rag_returns[i])
        /\ Len(rag_returns[i].error) > 3
        /\ rag_returns[i].error[1] = "Access Denied: "
        /\ rag_returns[i].error[2] = "ThrottlingException"
        /\ rag_returns[i].error[3] = ACCESS_DENIED
        /\ Mentions(rag_returns[i], "AWS credentials")

----------------------------------------------------------------------------
(* C4 *)

\* The model identifiers the source names, lines 14-19 and 127.
KnownModelIds == ModelIds \cup ListedModelIds

\* C4: an exception of the network call whose text contains both
\* "ValidationException" and "access to the model", whatever else it contains,
\* gives a failure record that contains MODEL_ID and names a model identifier
\* other than MODEL_ID.
C4_ModelAccessNamesModelAndAlternative ==
    [][(/\ FromNetwork
        /\ Contains(locals.e.args, VALIDATION)
        /\ Contains(locals.e.args, MODEL_ACCESS))
        => /\ RagReturnsNow
           /\ IsFailure(Last(rag_returns'))
           /\ Mentions(Last(rag_returns'), MODEL_ID)
           /\ \E other \in KnownModelIds \ {MODEL_ID} : Mentions(Last(rag_returns'), other)
      ]_vars

\* A text with all three signatures was returned as a model-access error.
C4_Witness ==
    \E i \in 1..Len(rag_returns) :
        /\ IsFailure(rag_returns[i])
        /\ Len(rag_returns[i].error) > 0
        /\ rag_returns[i].error[1] = "Model Access Error: "
        /\ Mentions(rag_returns[i], ACCESS_DENIED)
        /\ Mentions(rag_returns[i], MODEL_ID)

----------------------------------------------------------------------------
(* C5 *)

\* C5: an exception inside the query path whose text M is in neither the
\* model-access class nor the access-denied class gives the failure record
\* whose error is M, nothing added.
C5_UnclassifiedReturnedUnchanged ==
    [][(/\ pc = "rrq_except"
        /\ ~(Contains(Str(locals.e), VALIDATION) /\ Contains(Str(locals.e), MODEL_ACCESS))
        /\ ~Contains(Str(locals.e), ACCESS_DENIED))
        => /\ RagReturnsNow
           /\ Last(rag_returns') = [error |-> Str(locals.e)]
      ]_vars

\* A text with one of the two model-access signatures only was returned as it was.
C5_Witness ==
    \E i \in 1..Len(rag_returns) :
        rag_returns[i] = [error |-> <<VALIDATION, "ThrottlingException">>]

----------------------------------------------------------------------------
(* C6 *)

\* C6: check_model_access returns true exactly when the listing call succeeded
\* and MODEL_ID is among the identifiers read from its response; a failure of
\* client creation or of the call, and a response the identifiers cannot be read
\* from, end in the handler, which returns false.
C6_CheckTrueIffListed ==
    [][/\ pc = "cma_scan" =>
            /\ WellFormedListing(locals.response) =>
                  /\ CheckReturnsNow
                  /\ Last(cma_returns') = Lists(locals.response, MODEL_ID)
            /\ ~WellFormedListing(locals.response) => pc' = "cma_except"
       /\ pc = "cma_except" => (CheckReturnsNow /\ Last(cma_returns') = FALSE)
       /\ (pc \in {"cma_client", "cma_list"} /\ pc' \notin {"cma_list", "cma_scan"})
            => pc' = "cma_except"
       /\ CheckReturnsNow => pc \in {"cma_scan", "cma_except"}
      ]_vars

\* The check returned true though the model was not the first one listed.
C6_Witness ==
    /\ cma_returns = <<TRUE>>
    /\ MODEL_ID = SONNET
    /\ \E i \in 1..Len(net) : net[i].op = "list_foundation_models"

----------------------------------------------------------------------------
(* C7 *)

\* C7 (as claimed): after a response of unexpected shape run_rag_query returns
\* no record (the fault leaves the function).
C7_MalformedRaises ==
    [][("response" \in DOMAIN locals /\ locals.fn = "run_rag_query"
            /\ MalformedRag(locals.response))
        => rag_returns' = rag_returns]_vars

MissingKeyTexts == {<<"'output'">>, <<"'text'">>, <<"'content'">>}

\* C7 (amended): after a response of unexpected shape the KeyError is caught by
\* the handler of the query path, and run_rag_query returns the failure record
\* whose error is the text of the KeyError, the quoted name of the missing key.
C7_MalformedReturnsKeyError ==
    [][/\ (pc = "rrq_process" /\ MalformedRag(locals.response))
            => (pc' = "rrq_except" /\ locals'.e.type = "KeyError")
       /\ (pc = "rrq_except" /\ locals.e.type = "KeyError")
            => /\ RagReturnsNow
               /\ IsFailure(Last(rag_returns'))
               /\ Last(rag_returns').error \in MissingKeyTexts
      ]_vars

\* A response without output.text was answered by a failure record.
C7_Witness ==
    \E i \in 1..Len(rag_returns) : rag_returns[i] = [error |-> <<"'text'">>]

----------------------------------------------------------------------------
(* C8 *)

Printed(line) == \E i \in 1..Len(out) : out[i] = line

\* C8: every record run_rag_query returns is a failure record with the one key
\* 'error' or a success record with the keys 'answer', 'sources', 'model_used';
\* the entry point prints the failure of a failure record and the success of a
\* success record, never both.
C8_ExactlyOneVariant ==
    /\ \A i \in 1..Len(rag_returns) :
          IsFailure(rag_returns[i]) # IsSuccess(rag_returns[i])
    /\ (mode = "script" /\ pc = "done")
          => /\ Len(rag_returns) = 1
             /\ Printed("failed") = IsFailure(rag_returns[1])
             /\ Printed("successful") = IsSuccess(rag_returns[1])

\* The script ended on the success branch.
C8_Witness ==
    /\ mode = "script"
    /\ pc = "done"
    /\ IsSuccess(rag_returns[1])
    /\ Printed("successful")

----------------------------------------------------------------------------
(* C9 *)

ClientCreated == \E i \in RagClients : net[i].ok

\* C9: retrieve-and-generate is issued at most once, and exactly once by the
\* time run_rag_query returns after a successful client creation; never when
\* client creation failed or validation failed.  The listing call is issued at
\* most once.
C9_EachCallAtMostOnce ==
    /\ NetCount("retrieve_and_generate") <= 1
    /\ NetCount("list_foundation_models") <= 1
    /\ Cardinality(RagClients) <= 1
    /\ (Len(rag_returns) = 1 /\ ClientCreated) => NetCount("retrieve_and_generate") = 1
    /\ ~ClientCreated => NetCount("retrieve_and_generate") = 0

\* A failed call was answered by a failure record, after one attempt.
C9_Witness ==
    /\ Len(rag_returns) = 1
    /\ IsFailure(rag_returns[1])
    /\ ClientCreated
    /\ NetCount("retrieve_and_generate") = 1
    /\ rag_returns[1].error = <<"ThrottlingException">>

----------------------------------------------------------------------------
(* C10 *)

Presented == Printed("failed") \/ Printed("successful")

\* C10: run directly, the script enters check_model_access, then run_rag_query
\* once, after the check has returned and whatever it returned, then presents
\* the record; every run reaches the presentation.
C10_CheckThenQueryThenPresent ==
    /\ [](mode = "script" =>
            /\ InvokedCount("run_rag_query") <= 1
            /\ InvokedCount("check_model_access") = 1
            /\ invoked[1] = "check_model_access"
            /\ InvokedCount("run_rag_query") = 1 => Len(cma_returns) = 1
            /\ Presented => (Len(rag_returns) = 1 /\ pc = "done"))
    /\ [][(mode = "script" /\ pc = "main_checked")
            => (invoked' = <<"check_model_access", "run_rag_query">>)]_vars
    /\ (mode = "script") ~> (pc = "done" /\ Presented /\ InvokedCount("run_rag_query") = 1)

\* The check returned false and the script still presented the query's record.
C10_Witness ==
    /\ mode = "script"
    /\ pc = "done"
    /\ cma_returns = <<FALSE>>
    /\ Presented
    /\ invoked = <<"check_model_access", "run_rag_query">>

====
